---- MODULE Spec2Model ----
(***************************************************************************)
(* Spark-compatible decimal arithmetic of the thunderduck DuckDB extension: *)
(* wide-integer primitives, SparkDecimalDivide, the precision rules and the *)
(* spark_sum / spark_avg aggregate states.                                  *)
(*                                                                          *)
(* The values of the program are 64-, 128- and 256-bit integers.  They are  *)
(* kept at their width: an unsigned integer of n bytes is the sequence of   *)
(* its n bytes, least significant first, and a signed integer is its two's  *)
(* complement bit pattern.                                                  *)
(***************************************************************************)
EXTENDS Integers, Sequences, FiniteSets, TLC

VARIABLES
  call,      \* the last SparkDecimalDivide call: inputs, path taken, outputs
  wide,      \* one call of Mul128 or Div256By128 on its own: inputs and outputs
  bound,     \* the last bind: operand types, result types, scale adjustment
  exec,      \* one chunk of spark_decimal_div rows and what each SparkDivExec made of it
  sum_st,    \* SparkSumDecimalState of every worker
  avg_st,    \* SparkAvgDecimalState of every worker
  rows,      \* per worker: the rows its state has received, directly or combined
  live,      \* the workers whose state has not been combined into another
  fin,       \* the last Finalize: the outcome for Sum and for Avg
  run        \* a ConstantOperation on its own: its input and the states before it

aggVars == <<sum_st, avg_st, rows, live, fin, run>>
vars == <<call, wide, bound, exec, aggVars>>

----------------------------------------------------------------------------
(* Unsigned integers as byte sequences.                                     *)

Byte == 2^8

Zeros(n) == [i \in 1..n |-> 0]

Max(x, y) == IF x >= y THEN x ELSE y          \* std::max
Min(x, y) == IF x <= y THEN x ELSE y          \* std::min

\* a reduced modulo 2^(8n), or zero-extended, to n bytes
Wrap(a, n) == [i \in 1..n |-> IF i <= Len(a) THEN a[i] ELSE 0]

RECURSIVE FromInt(_, _)
\* the n-byte integer of the small number v >= 0
FromInt(v, n) == IF n = 0 THEN <<>> ELSE <<v % Byte>> \o FromInt(v \div Byte, n - 1)

IsZero(a) == \A i \in 1..Len(a) : a[i] = 0

\* value equality and order of two integers of any widths
NatEq(a, b) ==
  LET n == IF Len(a) > Len(b) THEN Len(a) ELSE Len(b)
  IN Wrap(a, n) = Wrap(b, n)

RECURSIVE LessFrom(_, _, _)
\* a < b on the bytes i down to 1, the bytes above i being equal
LessFrom(a, b, i) ==
  IF i = 0 THEN FALSE
  ELSE LET x == IF i <= Len(a) THEN a[i] ELSE 0
           y == IF i <= Len(b) THEN b[i] ELSE 0
       IN IF x # y THEN x < y ELSE LessFrom(a, b, i - 1)

NatLess(a, b) == LessFrom(a, b, IF Len(a) > Len(b) THEN Len(a) ELSE Len(b))

NatLeq(a, b) == ~NatLess(b, a)

RECURSIVE AddCarry(_, _, _, _)
AddCarry(a, b, i, c) ==
  IF i > Len(a) THEN <<c>>
  ELSE LET s == a[i] + b[i] + c
       IN <<s % Byte>> \o AddCarry(a, b, i + 1, s \div Byte)

\* the exact sum, one byte wider than the wider operand
NatAdd(a, b) ==
  LET n == IF Len(a) > Len(b) THEN Len(a) ELSE Len(b)
  IN AddCarry(Wrap(a, n), Wrap(b, n), 1, 0)

RECURSIVE SubBorrow(_, _, _, _)
SubBorrow(a, b, i, c) ==
  IF i > Len(a) THEN <<>>
  ELSE LET s == a[i] - b[i] - c
       IN <<s % Byte>> \o SubBorrow(a, b, i + 1, IF s < 0 THEN 1 ELSE 0)

\* a - b modulo 2^(8n), n the width of the wider operand
NatSub(a, b) ==
  LET n == IF Len(a) > Len(b) THEN Len(a) ELSE Len(b)
  IN SubBorrow(Wrap(a, n), Wrap(b, n), 1, 0)

\* the number of bytes of a up to its most significant nonzero one
Significant(a) ==
  IF IsZero(a) THEN 0 ELSE CHOOSE i \in 1..Len(a) : a[i] # 0 /\ \A k \in (i + 1)..Len(a) : a[k] = 0

RECURSIVE ColumnSum(_, _, _, _)
\* sum of a[i] * b[k + 1 - i] over the i from i on
ColumnSum(a, b, k, i) ==
  IF i > Len(a) \/ i > k THEN 0
  ELSE a[i] * b[k + 1 - i] + ColumnSum(a, b, k, i + 1)

\* the exact product, Len(a) + Len(b) bytes: the column sums of the schoolbook
\* product of the significant bytes (each sum below 2^24) are split into
\* their three bytes, and the three byte sequences are added at their weights
NatMul(a, b) ==
  LET sa == SubSeq(a, 1, Significant(a))
      sb == SubSeq(b, 1, Significant(b))
      m == Len(sa) + Len(sb)
      col == [k \in 1..m |-> ColumnSum(sa, sb, k, Max(1, k + 1 - Len(sb)))] \o <<>>
      b0 == [k \in 1..m |-> col[k] % Byte] \o <<>>
      b1 == [k \in 1..m |-> IF k = 1 THEN 0 ELSE (col[k - 1] \div Byte) % Byte] \o <<>>
      b2 == [k \in 1..m |-> IF k <= 2 THEN 0 ELSE col[k - 2] \div (Byte * Byte)] \o <<>>
  IN Wrap(NatAdd(Wrap(NatAdd(b0, b1), m), b2), Len(a) + Len(b))

\* bit k of a, bit 0 the least significant
BitOf(a, k) == (a[(k \div 8) + 1] \div 2^(k % 8)) % 2

SetBit(a, k) ==
  IF BitOf(a, k) = 1 THEN a
  ELSE [i \in 1..Len(a) |-> IF i = (k \div 8) + 1 THEN a[i] + 2^(k % 8) ELSE a[i]] \o <<>>

\* one step of binary long division: bit k of a enters the remainder
DivModStep(st, a, b, k) ==
  LET r2 == AddCarry(st.rem, st.rem, 1, BitOf(a, k))
  IN IF NatLess(r2, b)
     THEN [quot |-> st.quot, rem |-> Wrap(r2, Len(b))]
     ELSE [quot |-> SetBit(st.quot, k), rem |-> Wrap(NatSub(r2, b), Len(b))]

RECURSIVE DivModBits(_, _, _, _, _)
\* the steps for bits hi down to lo: the upper half of the bits, then the
\* lower half from the state s the upper half ends in.  Binding s makes the
\* evaluator finish the upper half first, which keeps the loop flat.
DivModBits(st, a, b, hi, lo) ==
  IF hi = lo THEN DivModStep(st, a, b, hi)
  ELSE LET mid == (hi + lo + 1) \div 2
       IN CHOOSE r \in {DivModBits(s, a, b, mid - 1, lo) :
                          s \in {DivModBits(st, a, b, hi, mid)}} : TRUE

\* the machine's unsigned division: a / b and a % b for b # 0.  The leading
\* zero bytes of a leave quotient and remainder zero and are skipped.
NatDivMod(a, b) ==
  LET st0 == [quot |-> Zeros(Len(a)), rem |-> Zeros(Len(b))]
  IN IF IsZero(a) THEN st0 ELSE DivModBits(st0, a, b, 8 * Significant(a) - 1, 0)

----------------------------------------------------------------------------
(* The widths of the program's integer types, in bytes.                     *)

Bits64 == 64
Bits128 == 128
W64 == Bits64 \div 8
W128 == Bits128 \div 8

Add128(a, b) == Wrap(NatAdd(a, b), W128)
Sub128(a, b) == Wrap(NatSub(a, b), W128)
Neg128(a) == Sub128(Zeros(W128), a)
IsNegative128(a) == a[W128] >= Byte \div 2

Lo64(a) == SubSeq(a, 1, W64)                   \* static_cast<uint64_t>(a)
Hi64(a) == SubSeq(a, W64 + 1, W128)            \* static_cast<uint64_t>(a >> 64)
Shl64(a) == Zeros(W64) \o SubSeq(a, 1, W64)    \* a << 64 in 128 bits
Shr64(a) == SubSeq(a, W64 + 1, W128) \o Zeros(W64)

----------------------------------------------------------------------------
(* wide_integer.hpp                                                         *)

\* hugeint_t is {lower: uint64_t, upper: int64_t}
HugeintToInt128(h) == h.lower \o h.upper
Int128ToHugeint(v) == [upper |-> Hi64(v), lower |-> Lo64(v)]

Abs128(x) == IF IsNegative128(x) THEN Neg128(x) ELSE x

\* Mul128 with the cross product a_hi * b_lo left out
Mul128DropsCross(a, b) ==
  LET Sum(p0, p3, mid, lo) ==
        LET lo_carry == IF NatLess(lo, p0) THEN FromInt(1, W128) ELSE Zeros(W128)
        IN [hi |-> Add128(Add128(p3, Shr64(mid)), lo_carry), lo |-> lo]
      Products(p0, p1, p3) == Sum(p0, p3, p1, Add128(p0, Shl64(p1)))
  IN Products(NatMul(Lo64(a), Lo64(b)), NatMul(Lo64(a), Hi64(b)), NatMul(Hi64(a), Hi64(b)))

\* Mul128 without the carry of the sum of the two middle products
Mul128NoMidCarry(a, b) ==
  LET Sum(p0, p3, mid, lo) ==
        LET lo_carry == IF NatLess(lo, p0) THEN FromInt(1, W128) ELSE Zeros(W128)
        IN [hi |-> Add128(Add128(p3, Shr64(mid)), lo_carry), lo |-> lo]
      Low(p0, p3, mid) == Sum(p0, p3, mid, Add128(p0, Shl64(mid)))
  IN Low(NatMul(Lo64(a), Lo64(b)), NatMul(Hi64(a), Hi64(b)),
         Add128(NatMul(Lo64(a), Hi64(b)), NatMul(Hi64(a), Lo64(b))))

\* uint256_t is the record [hi, lo] of two 128-bit halves
Mul128(a, b) ==
  LET a_lo == Lo64(a)
      a_hi == Hi64(a)
      b_lo == Lo64(b)
      b_hi == Hi64(b)
      \* combine with carry propagation, from mid and lo
      Sum(p0, p1, p3, mid, lo) ==
        LET mid_carry == IF NatLess(mid, p1) THEN Shl64(FromInt(1, W128)) ELSE Zeros(W128)
            lo_carry == IF NatLess(lo, p0) THEN FromInt(1, W128) ELSE Zeros(W128)
            hi == Add128(Add128(Add128(p3, Shr64(mid)), mid_carry), lo_carry)
        IN [hi |-> hi, lo |-> lo]
      Low(p0, p1, p3, mid) == Sum(p0, p1, p3, mid, Add128(p0, Shl64(mid)))
      \* the four 64x64 -> 128 partial products
      Products(p0, p1, p2, p3) == Low(p0, p1, p3, Add128(p1, p2))
  IN Products(NatMul(a_lo, b_lo), NatMul(a_lo, b_hi), NatMul(a_hi, b_lo), NatMul(a_hi, b_hi))

\* one iteration of either loop of Div256By128: bit `bit` of limb, whose
\* quotient bit is bit + shift
Div256Step(st, den, limb, bit, shift) ==
  LET Shifted(r1) == IF BitOf(limb, bit) = 1 THEN SetBit(r1, 0) ELSE r1
      Subtract(r2) ==
        IF NatLeq(den, r2)
        THEN [rem |-> Sub128(r2, den), quot |-> SetBit(st.quot, bit + shift)]
        ELSE [rem |-> r2, quot |-> st.quot]
  IN Subtract(Shifted(Add128(st.rem, st.rem)))

RECURSIVE Div256Loop(_, _, _, _, _, _)
\* for (bit = hi; bit >= lo; bit--) of one loop
Div256Loop(st, den, limb, hi, lo, shift) ==
  IF hi = lo THEN Div256Step(st, den, limb, hi, shift)
  ELSE LET mid == (hi + lo + 1) \div 2
       IN CHOOSE r \in {Div256Loop(s, den, limb, mid - 1, lo, shift) :
                          s \in {Div256Loop(st, den, limb, hi, mid, shift)}} : TRUE

\* D_ASSERT(num.hi < den), reached only when num.hi # 0
Div256Precondition(num, den) == IsZero(num.hi) \/ NatLess(num.hi, den)

\* the quotient and *remainder; with the assertion compiled out the loops run
\* on whatever num.hi is
Div256By128(num, den) ==
  IF IsZero(num.hi)
  THEN NatDivMod(num.lo, den)
  ELSE LET lo_hi == Hi64(num.lo)
           lo_lo == Lo64(num.lo)
           upper == Div256Loop([quot |-> Zeros(W128), rem |-> num.hi],
                               den, lo_hi, Bits64 - 1, 0, Bits64)
       IN CHOOSE r \in {Div256Loop(s, den, lo_lo, Bits64 - 1, 0, 0) : s \in {upper}} : TRUE

RECURSIVE Dec64(_)
\* a 64-bit decimal literal, written as its groups of three digits
Dec64(g) ==
  IF Len(g) = 0 THEN Zeros(W64)
  ELSE Wrap(NatAdd(NatMul(Dec64(SubSeq(g, 1, Len(g) - 1)), FromInt(1000, 2)),
                   FromInt(g[Len(g)], 2)), W64)

MakeUint128(hi, lo) == lo \o hi

\* the literals of table[], each written as its groups of three digits
Pow10Literals == <<
  << <<0>>, <<1>> >>,
  << <<0>>, <<10>> >>,
  << <<0>>, <<100>> >>,
  << <<0>>, <<1, 0>> >>,
  << <<0>>, <<10, 0>> >>,
  << <<0>>, <<100, 0>> >>,
  << <<0>>, <<1, 0, 0>> >>,
  << <<0>>, <<10, 0, 0>> >>,
  << <<0>>, <<100, 0, 0>> >>,
  << <<0>>, <<1, 0, 0, 0>> >>,
  << <<0>>, <<10, 0, 0, 0>> >>,
  << <<0>>, <<100, 0, 0, 0>> >>,
  << <<0>>, <<1, 0, 0, 0, 0>> >>,
  << <<0>>, <<10, 0, 0, 0, 0>> >>,
  << <<0>>, <<100, 0, 0, 0, 0>> >>,
  << <<0>>, <<1, 0, 0, 0, 0, 0>> >>,
  << <<0>>, <<10, 0, 0, 0, 0, 0>> >>,
  << <<0>>, <<100, 0, 0, 0, 0, 0>> >>,
  << <<0>>, <<1, 0, 0, 0, 0, 0, 0>> >>,
  << <<0>>, <<10, 0, 0, 0, 0, 0, 0>> >>,
  << <<5>>, <<7, 766, 279, 631, 452, 241, 920>> >>,
  << <<54>>, <<3, 875, 820, 19, 684, 212, 736>> >>,
  << <<542>>, <<1, 864, 712, 49, 423, 24, 128>> >>,
  << <<5, 421>>, <<200, 376, 420, 520, 689, 664>> >>,
  << <<54, 210>>, <<2, 3, 764, 205, 206, 896, 640>> >>,
  << <<542, 101>>, <<1, 590, 897, 978, 359, 414, 784>> >>,
  << <<5, 421, 10>>, <<15, 908, 979, 783, 594, 147, 840>> >>,
  << <<54, 210, 108>>, <<11, 515, 845, 246, 265, 65, 472>> >>,
  << <<542, 101, 86>>, <<4, 477, 988, 20, 393, 345, 24>> >>,
  << <<5, 421, 10, 862>>, <<7, 886, 392, 56, 514, 347, 8>> >>,
  << <<54, 210, 108, 624>>, <<5, 76, 944, 270, 305, 263, 616>> >>,
  << <<542, 101, 86, 242>>, <<13, 875, 954, 555, 633, 532, 928>> >>,
  << <<5, 421, 10, 862, 427>>, <<9, 632, 337, 40, 368, 467, 968>> >>,
  << <<54, 210, 108, 624, 275>>, <<4, 89, 650, 35, 136, 921, 600>> >>,
  << <<542, 101, 86, 242, 752>>, <<4, 3, 12, 203, 950, 112, 768>> >>,
  << <<5, 421, 10, 862, 427, 522>>, <<3, 136, 633, 892, 82, 24, 448>> >>,
  << <<54, 210, 108, 624, 275, 221>>, <<12, 919, 594, 847, 110, 692, 864>> >>,
  << <<542, 101, 86, 242, 752, 217>>, <<68, 739, 955, 140, 67, 328>> >>,
  << <<5, 421, 10, 862, 427, 522, 170>>, <<687, 399, 551, 400, 673, 280>> >> >>

Pow10Table ==
  [i \in 1..Len(Pow10Literals) |->
     MakeUint128(Dec64(Pow10Literals[i][1]), Dec64(Pow10Literals[i][2]))]

Pow10MaxExp == 38

\* table[exp]; D_ASSERT(exp <= 38)
Pow10_128(exp) == Pow10Table[exp + 1]

----------------------------------------------------------------------------
(* decimal_division.hpp                                                     *)

ByteXor(x, y) ==
  LET b(k) == ((x \div 2^k) + (y \div 2^k)) % 2
  IN b(0) + 2 * b(1) + 4 * b(2) + 8 * b(3) + 16 * b(4) + 32 * b(5) + 64 * b(6) + 128 * b(7)

ByteAnd(x, y) ==
  LET b(k) == ((x \div 2^k) % 2) * ((y \div 2^k) % 2)
  IN b(0) + 2 * b(1) + 4 * b(2) + 8 * b(3) + 16 * b(4) + 32 * b(5) + 64 * b(6) + 128 * b(7)

Xor128(a, b) == [i \in 1..W128 |-> ByteXor(a[i], b[i])]
And128(a, b) == [i \in 1..W128 |-> ByteAnd(a[i], b[i])]

\* the sign taken from the dividend alone
ResultNegativeOfDividend(a, b) == IsNegative128(a)

\* negative = (a < 0) != (b < 0)
ResultNegative(a, b) == IsNegative128(a) # IsNegative128(b)

\* the branch with pow10_val == 0
Unscaled(abs_a, abs_b) ==
  LET Taken(qr) == [path |-> "unscaled", quot |-> qr.quot, rem |-> qr.rem, asserted |-> TRUE]
  IN Taken(NatDivMod(abs_a, abs_b))

\* __builtin_mul_overflow(abs_a, pow10_val, &scaled)
MulOverflow(abs_a, pow10_val) ==
  LET Split(full) ==
        [overflow |-> ~IsZero(SubSeq(full, W128 + 1, 2 * W128)), scaled |-> SubSeq(full, 1, W128)]
  IN Split(NatMul(abs_a, pow10_val))

\* fast path: scaled / abs_b and scaled % abs_b
FastPath(scaled, abs_b) ==
  LET Taken(qr) == [path |-> "fast", quot |-> qr.quot, rem |-> qr.rem, asserted |-> TRUE]
  IN Taken(NatDivMod(scaled, abs_b))

\* slow path: Mul128, then Div256By128
SlowPath(abs_a, pow10_val, abs_b) ==
  LET Taken(qr, asserted) ==
        [path |-> "slow", quot |-> qr.quot, rem |-> qr.rem, asserted |-> asserted]
      Divided(scaled_wide) ==
        Taken(Div256By128(scaled_wide, abs_b), Div256Precondition(scaled_wide, abs_b))
  IN Divided(Mul128(abs_a, pow10_val))

QuotientRemainder(abs_a, abs_b, pow10_val) ==
  IF IsZero(pow10_val) THEN Unscaled(abs_a, abs_b)
  ELSE LET Scaled(m) ==
             IF ~m.overflow THEN FastPath(m.scaled, abs_b)
             ELSE SlowPath(abs_a, pow10_val, abs_b)
       IN Scaled(MulOverflow(abs_a, pow10_val))

\* quotient += (remainder * 2 >= abs_b)
RoundHalfUp(quotient, remainder, abs_b) ==
  Add128(quotient,
         FromInt(IF NatLeq(abs_b, Add128(remainder, remainder)) THEN 1 ELSE 0, W128))

\* (quotient ^ sign_mask) + (sign_mask & 1), sign_mask = -(unsigned)negative
ApplySign(quotient, negative) ==
  LET sign_mask == Neg128(FromInt(IF negative THEN 1 ELSE 0, W128))
  IN Add128(Xor128(quotient, sign_mask), And128(sign_mask, FromInt(1, W128)))

\* the call for b # 0.  `asserted` tells whether every D_ASSERT on the way
\* held; `result` is what the function returns when assertions are compiled
\* out (or hold)
SparkDecimalDivide(a, b, pow10_val) ==
  LET negative == ResultNegative(a, b)
      abs_a == Abs128(a)
      abs_b == Abs128(b)
      Rounded(qr) ==
        LET quotient == RoundHalfUp(qr.quot, qr.rem, abs_b)
        IN [path |-> qr.path, asserted |-> qr.asserted, quot |-> qr.quot, rem |-> qr.rem,
            result |-> ApplySign(quotient, negative)]
  IN Rounded(QuotientRemainder(abs_a, abs_b, pow10_val))

----------------------------------------------------------------------------
(* spark_precision.hpp and the bind functions                               *)

SPARK_MAX_PRECISION == 38
SPARK_MIN_ADJUSTED_SCALE == 6

U8(x) == x % 2^8                              \* static_cast<uint8_t>

\* ComputeDivisionType with the adjusted scale always the minimum scale
ComputeDivisionTypeMinScale(p1, s1, p2, s2) ==
  LET result_scale == Max(U8(6), U8(s1 + p2 + 1))
      result_precision == U8((p1 - s1) + s2 + result_scale)
  IN IF result_precision > SPARK_MAX_PRECISION
     THEN [precision |-> SPARK_MAX_PRECISION,
           scale |-> Min(result_scale, SPARK_MIN_ADJUSTED_SCALE)]
     ELSE [precision |-> result_precision, scale |-> result_scale]

\* ComputeDivisionType without the guard of the 8-bit 38 - int_digits
ComputeDivisionTypeUnguarded(p1, s1, p2, s2) ==
  LET result_scale == Max(U8(6), U8(s1 + p2 + 1))
      result_precision == U8((p1 - s1) + s2 + result_scale)
  IN IF result_precision > SPARK_MAX_PRECISION
     THEN LET int_digits == U8(result_precision - result_scale)
              min_scale == Min(result_scale, SPARK_MIN_ADJUSTED_SCALE)
          IN [precision |-> SPARK_MAX_PRECISION,
              scale |-> Max(U8(SPARK_MAX_PRECISION - int_digits), min_scale)]
     ELSE [precision |-> result_precision, scale |-> result_scale]

ComputeDivisionType(p1, s1, p2, s2) ==
  LET result_scale == Max(U8(6), U8(s1 + p2 + 1))
      result_precision == U8((p1 - s1) + s2 + result_scale)
  IN IF result_precision > SPARK_MAX_PRECISION
     THEN LET int_digits == U8(result_precision - result_scale)
              min_scale == Min(result_scale, SPARK_MIN_ADJUSTED_SCALE)
          IN [precision |-> SPARK_MAX_PRECISION,
              scale |-> IF SPARK_MAX_PRECISION > int_digits
                        THEN Max(U8(SPARK_MAX_PRECISION - int_digits), min_scale)
                        ELSE min_scale]
     ELSE [precision |-> result_precision, scale |-> result_scale]

\* ComputeSumType without the clamp to 38
ComputeSumTypeUnclamped(p, s) == [precision |-> U8(p + 10), scale |-> s]

ComputeSumType(p, s) ==
  [precision |-> Min(U8(p + 10), SPARK_MAX_PRECISION), scale |-> s]

\* ComputeAvgType without the limit of 18 on the scale
ComputeAvgTypeScaleUnlimited(p, s) ==
  LET result_precision == Min(U8(p + 4), SPARK_MAX_PRECISION)
  IN [precision |-> result_precision, scale |-> Min(U8(s + 4), result_precision)]

ComputeAvgType(p, s) ==
  LET result_precision == Min(U8(p + 4), SPARK_MAX_PRECISION)
      result_scale == Min(U8(s + 4), U8(18))
  IN [precision |-> result_precision, scale |-> Min(result_scale, result_precision)]

\* the DECIMAL types a bound argument can have: width 1..38, scale 0..width
DecimalTypes == {ps \in (1..SPARK_MAX_PRECISION) \X (0..SPARK_MAX_PRECISION) : ps[2] <= ps[1]}

W32 == 4
U32(x) == FromInt(x, W32)                     \* static_cast<uint32_t> of a uint8_t

Unbound == [kind |-> "none", p1 |-> 1, s1 |-> 0, p2 |-> 1, s2 |-> 0,
            precision |-> 1, scale |-> 0, scale_adj |-> U32(0)]

\* BindSparkDecimalDiv: the result type and SparkDivBindData(scale_adj)
BindSparkDecimalDiv(p1, s1, p2, s2) ==
  LET result == ComputeDivisionType(p1, s1, p2, s2)
      scale_adj == Wrap(NatAdd(Wrap(NatSub(U32(result.scale), U32(s1)), W32), U32(s2)), W32)
  IN [kind |-> "div", p1 |-> p1, s1 |-> s1, p2 |-> p2, s2 |-> s2,
      precision |-> result.precision, scale |-> result.scale, scale_adj |-> scale_adj]

\* BindSparkSumDecimal: the result type and SparkAggBindData(s, result.scale)
BindSparkSumDecimal(p, s) ==
  LET result == ComputeSumType(p, s)
  IN [Unbound EXCEPT !.kind = "sum", !.p1 = p, !.s1 = s,
                     !.precision = result.precision, !.scale = result.scale]

\* BindSparkAvgDecimal: the result type and SparkAggBindData(s, result.scale)
BindSparkAvgDecimal(p, s) ==
  LET result == ComputeAvgType(p, s)
  IN [Unbound EXCEPT !.kind = "avg", !.p1 = p, !.s1 = s,
                     !.precision = result.precision, !.scale = result.scale]

BindDiv ==
  /\ bound.kind = "none"
  /\ \E t1 \in DecimalTypes, t2 \in DecimalTypes :
       bound' = BindSparkDecimalDiv(t1[1], t1[2], t2[1], t2[2])
  /\ UNCHANGED <<call, wide, exec, aggVars>>

BindSum ==
  /\ bound.kind = "none"
  /\ \E t \in DecimalTypes : bound' = BindSparkSumDecimal(t[1], t[2])
  /\ UNCHANGED <<call, wide, exec, aggVars>>

BindAvg ==
  /\ bound.kind = "none"
  /\ \E t \in DecimalTypes : bound' = BindSparkAvgDecimal(t[1], t[2])
  /\ UNCHANGED <<call, wide, exec, aggVars>>

----------------------------------------------------------------------------
(* spark_aggregates.hpp: the accumulator states and their operations        *)

\* hugeint_t arithmetic of the host library: + and * reduce modulo 2^128
HugeintZero == Int128ToHugeint(Zeros(W128))
HugeintAdd(a, b) == Int128ToHugeint(Add128(HugeintToInt128(a), HugeintToInt128(b)))
HugeintMul(a, b) ==
  Int128ToHugeint(Wrap(NatMul(HugeintToInt128(a), HugeintToInt128(b)), W128))

\* Hugeint::Convert(static_cast<int64_t>(count)): the cast keeps the 64 bits
\* of the idx_t, the conversion extends their sign
HugeintConvert(count) ==
  [lower |-> count,
   upper |-> IF count[W64] >= Byte \div 2 THEN [i \in 1..W64 |-> Byte - 1] ELSE Zeros(W64)]

\* the bytes of the physical type DuckDB stores a DECIMAL of this width in:
\* int16_t, int32_t, int64_t or hugeint_t
PhysicalBytes(precision) ==
  IF precision <= 4 THEN 2
  ELSE IF precision <= 9 THEN 4
  ELSE IF precision <= 18 THEN W64
  ELSE W128

\* WriteAggResult: static_cast<T>(val) keeps the low bytes of val
WriteAggResult(val, width) == Wrap(val, width)

\* SparkSumDecimalState::Initialize
Sum_Initialize == [value |-> HugeintZero, isset |-> FALSE]

\* SparkSumDecimalOperation::Operation
Sum_Operation(state, input) ==
  [isset |-> TRUE, value |-> HugeintAdd(state.value, input)]

\* SparkSumDecimalOperation::ConstantOperation
Sum_ConstantOperation(state, input, count) ==
  [isset |-> TRUE,
   value |-> HugeintAdd(state.value, HugeintMul(input, HugeintConvert(count)))]

\* Combine that assigns the source's value
Sum_CombineAssigns(source, target) ==
  IF source.isset THEN [isset |-> TRUE, value |-> source.value] ELSE target

\* Combine that marks the target set whatever the source
Sum_CombineSetsAlways(source, target) ==
  [isset |-> TRUE, value |-> HugeintAdd(target.value, source.value)]

\* SparkSumDecimalState::Combine, target.Combine(source)
Sum_Combine(source, target) ==
  IF source.isset
  THEN [isset |-> TRUE, value |-> HugeintAdd(target.value, source.value)]
  ELSE target

NullResult == [is_null |-> TRUE, target |-> <<>>]

\* SparkSumDecimalOperation::Finalize into a target of `width` bytes
Sum_Finalize(state, width) ==
  IF ~state.isset THEN NullResult
  ELSE [is_null |-> FALSE,
        target |-> WriteAggResult(HugeintToInt128(state.value), width)]

\* SparkAvgDecimalState::Initialize
Avg_Initialize == [count |-> Zeros(W64), sum |-> HugeintZero]

\* SparkAvgDecimalOperation::Operation
Avg_Operation(state, input) ==
  [count |-> Wrap(NatAdd(state.count, FromInt(1, W64)), W64),
   sum |-> HugeintAdd(state.sum, input)]

\* SparkAvgDecimalOperation::ConstantOperation
Avg_ConstantOperation(state, input, count) ==
  [count |-> Wrap(NatAdd(state.count, count), W64),
   sum |-> HugeintAdd(state.sum, HugeintMul(input, HugeintConvert(count)))]

\* SparkAvgDecimalState::Combine, target.Combine(source)
Avg_Combine(source, target) ==
  [count |-> Wrap(NatAdd(target.count, source.count), W64),
   sum |-> HugeintAdd(target.sum, source.sum)]

\* the argument Finalize passes for pow10_val.  Pow10_128 asserts
\* exp <= 38; beyond its table the read is out of bounds and yields any value
Pow10Argument(scale_adj) ==
  IF IsZero(scale_adj) THEN {[asserted |-> TRUE, value |-> Zeros(W128)]}
  ELSE IF IsZero(SubSeq(scale_adj, 2, W32)) /\ scale_adj[1] <= Pow10MaxExp
  THEN {[asserted |-> TRUE, value |-> Pow10_128(scale_adj[1])]}
  ELSE {[asserted |-> FALSE, value |-> v] :
          v \in {Zeros(W128), FromInt(1, W128), [i \in 1..W128 |-> Byte - 1]}}

\* the record of one call SparkDecimalDivide(a, b, pow10_val) that returned d
DivCall(a, b, pow10_val, d) ==
  [a |-> a, b |-> b, pow10_val |-> pow10_val, path |-> d.path, asserted |-> d.asserted,
   result |-> d.result]

\* the exponents Pow10_128 was called with by (scale_adj > 0) ? Pow10_128(scale_adj) : 0
PowCalls(scale_adj) == IF IsZero(scale_adj) THEN <<>> ELSE <<scale_adj>>

\* SparkAvgDecimalOperation::Finalize with the SparkAggBindData of the bind:
\* the outcomes of the call, with the calls of Pow10_128 and
\* SparkDecimalDivide it made.  A build with assertions stops at a failed
\* D_ASSERT; a build without them returns what the code computes.
Avg_Finalize(state, bind_data) ==
  IF IsZero(state.count)
  THEN {[outcome |-> "returned", is_null |-> TRUE, target |-> <<>>,
         pow_calls |-> <<>>, div_calls |-> <<>>]}
  ELSE LET scale_adj == Wrap(NatSub(U32(bind_data.scale), U32(bind_data.s1)), W32)
           sum_val == HugeintToInt128(state.sum)
           count_val == state.count \o Zeros(W64)
           width == PhysicalBytes(bind_data.precision)
           Stopped(div_calls) ==
             [outcome |-> "assert_failed", is_null |-> FALSE, target |-> <<>>,
              pow_calls |-> PowCalls(scale_adj), div_calls |-> div_calls]
           Written(d, pw) ==
             {[outcome |-> "returned", is_null |-> FALSE,
               target |-> WriteAggResult(d.result, width),
               pow_calls |-> PowCalls(scale_adj),
               div_calls |-> <<DivCall(sum_val, count_val, pw.value, d)>>]}
               \cup (IF ~pw.asserted THEN {Stopped(<<>>)}
                     ELSE IF ~d.asserted
                     THEN {Stopped(<<DivCall(sum_val, count_val, pw.value, d)>>)}
                     ELSE {})
       IN UNION {Written(SparkDecimalDivide(sum_val, count_val, pw.value), pw) :
                 pw \in Pow10Argument(scale_adj)}

\* the workers of the host that share one aggregation group
Workers == {"w1", "w2", "w3"}

\* what a state has received: the rows as a sorted sequence of value numbers
\* (0 is NULL), and the number of non-empty states combined into it
NoRows == [got |-> <<>>, merged |-> 0]

NoFinalize == [done |-> FALSE, sum |-> NullResult,
               avg |-> [outcome |-> "none", is_null |-> TRUE, target |-> <<>>,
                        pow_calls |-> <<>>, div_calls |-> <<>>]]
NoRun == [phase |-> "none", x |-> HugeintZero, count |-> Zeros(W64),
          sum_before |-> Sum_Initialize, avg_before |-> Avg_Initialize]

\* what a SparkDivExec left: the validity mask and the data of the result
\* vector (nothing is written for an invalid row), and the calls it made
NoResult == [outcome |-> "none", valid |-> <<>>, data |-> <<>>,
             pow_calls |-> <<>>, div_calls |-> <<>>]
NoExec == [args |-> <<>>, thdck |-> NoResult, standalone |-> NoResult]

\* every state constructed by Initialize, nothing received
IdleStates ==
  /\ sum_st = [w \in Workers |-> Sum_Initialize]
  /\ avg_st = [w \in Workers |-> Avg_Initialize]
  /\ rows = [w \in Workers |-> NoRows]
  /\ live = Workers
  /\ fin = NoFinalize

----------------------------------------------------------------------------
(* The calls of SparkDecimalDivide that are explored.                       *)

One128 == FromInt(1, W128)

\* a decimal value from its magnitude and sign
Signed(mag, neg) == IF neg THEN Neg128(mag) ELSE mag

\* magnitudes below 10^38: small ones, ties, limb boundaries and the largest
MaxDecimal == Sub128(Pow10_128(Pow10MaxExp), One128)

DividendMagnitudes ==
  {FromInt(v, W128) : v \in {0, 1, 5, 100}}
    \cup {Shl64(One128), Pow10_128(19), Add128(Pow10_128(37), Pow10_128(37)), MaxDecimal}
DivisorMagnitudes ==
  {FromInt(v, W128) : v \in {1, 2, 3}} \cup {Shl64(One128), MaxDecimal}

Dividends == {Signed(m, n) : m \in DividendMagnitudes, n \in BOOLEAN}
Divisors == {Signed(m, n) : m \in DivisorMagnitudes, n \in BOOLEAN}
Exponents == {0, 1, 6, 20, Pow10MaxExp}

\* the caller's convention: pow10_val = 10^e, or 0 when e = 0
PowArgument(e) == IF e > 0 THEN Pow10_128(e) ELSE Zeros(W128)

NoCall == [outcome |-> "none", a |-> Zeros(W128), b |-> One128, e |-> 0,
           pow10_val |-> Zeros(W128), path |-> "none", quot |-> Zeros(W128),
           rem |-> Zeros(W128), result |-> Zeros(W128)]

\* no call of a wide-integer primitive yet
NoWide == [op |-> "none", done |-> FALSE, a |-> Zeros(W128), b |-> Zeros(W128),
           num |-> [hi |-> Zeros(W128), lo |-> Zeros(W128)], den |-> One128,
           product |-> [hi |-> Zeros(W128), lo |-> Zeros(W128)],
           quot |-> Zeros(W128), rem |-> Zeros(W128)]

\* one call SparkDecimalDivide(a, b, pow10_val).  A build with assertions
\* stops at a failed D_ASSERT; a build without them returns what the loops
\* compute.
DivideCall(a, b, e) ==
  LET Outcomes(pow10_val, d) ==
        {[outcome |-> o, a |-> a, b |-> b, e |-> e, pow10_val |-> pow10_val,
          path |-> d.path, quot |-> d.quot, rem |-> d.rem, result |-> d.result] :
         o \in IF d.asserted THEN {"returned"} ELSE {"returned", "assert_failed"}}
      Called(pow10_val) == Outcomes(pow10_val, SparkDecimalDivide(a, b, pow10_val))
  IN Called(PowArgument(e))

Divide ==
  /\ call.outcome = "none"
  /\ call' \in DivideCall(call.a, call.b, call.e)
  /\ UNCHANGED <<wide, bound, exec, aggVars>>

Idle == wide = NoWide /\ bound = Unbound /\ exec = NoExec /\ IdleStates /\ run = NoRun

InitDivide ==
  /\ call \in {[NoCall EXCEPT !.a = a, !.b = b, !.e = e] :
                a \in Dividends, b \in Divisors, e \in Exponents}
  /\ Idle

NextDivide == Divide
SpecDivide == InitDivide /\ [][NextDivide]_vars

InitBind == call = NoCall /\ Idle
NextBind == BindSum \/ BindAvg \/ BindDiv
SpecBind == InitBind /\ [][NextBind]_vars

----------------------------------------------------------------------------
(* One aggregation group: spark_sum and spark_avg over the same DECIMAL     *)
(* argument, the rows spread over several workers of the host.              *)

MaxRows == 3
MaxRun == 2

\* the argument types explored: the widest type, a narrow one, and one with
\* a scale above 18
AggTypes == {<<SPARK_MAX_PRECISION, 0>>, <<5, 2>>, <<20, 19>>}

\* the values of a DECIMAL(p, s) argument explored, numbered 1 and 2:
\* -3 and the largest value 10^p - 1
RowValues(p) ==
  <<Int128ToHugeint(Neg128(FromInt(3, W128))),
    Int128ToHugeint(Sub128(Pow10_128(p), One128))>>

\* the sorted sequence s with k added
Insert(s, k) ==
  SelectSeq(s, LAMBDA v : v <= k) \o <<k>> \o SelectSeq(s, LAMBDA v : v > k)

RECURSIVE Merge(_, _)
Merge(s, t) == IF t = <<>> THEN s ELSE Merge(Insert(s, Head(t)), Tail(t))

RowCount ==
  Cardinality({wi \in Workers \X (1..MaxRows + 1) : wi[2] <= Len(rows[wi[1]].got)})

\* the host skips a NULL row: IgnoreNull() is true
UpdateNull ==
  /\ bound.kind = "avg" /\ ~fin.done /\ RowCount < MaxRows
  /\ \E w \in live : rows' = [rows EXCEPT ![w].got = Insert(@, 0)]
  /\ UNCHANGED <<call, wide, bound, exec, sum_st, avg_st, live, fin, run>>

\* one non-null row: Operation on the worker's Sum and Avg states
Update ==
  /\ bound.kind = "avg" /\ ~fin.done /\ RowCount < MaxRows
  /\ \E w \in live, k \in DOMAIN RowValues(bound.p1) :
       LET x == RowValues(bound.p1)[k]
       IN /\ sum_st' = [sum_st EXCEPT ![w] = Sum_Operation(@, x)]
          /\ avg_st' = [avg_st EXCEPT ![w] = Avg_Operation(@, x)]
          /\ rows' = [rows EXCEPT ![w].got = Insert(@, k)]
  /\ UNCHANGED <<call, wide, bound, exec, live, fin, run>>

\* a constant vector of n >= 1 rows: ConstantOperation on both states
UpdateRun ==
  /\ bound.kind = "avg" /\ ~fin.done
  /\ \E w \in live, k \in DOMAIN RowValues(bound.p1), n \in 1..MaxRun :
       LET x == RowValues(bound.p1)[k]
           count == FromInt(n, W64)
       IN /\ RowCount + n <= MaxRows
          /\ sum_st' = [sum_st EXCEPT ![w] = Sum_ConstantOperation(@, x, count)]
          /\ avg_st' = [avg_st EXCEPT ![w] = Avg_ConstantOperation(@, x, count)]
          /\ rows' = [rows EXCEPT ![w].got = Merge(@, [i \in 1..n |-> k])]
  /\ UNCHANGED <<call, wide, bound, exec, live, fin, run>>

\* the host merges the state of one worker into that of another and
\* destroys the source
Combine ==
  /\ bound.kind = "avg" /\ ~fin.done
  /\ \E source \in live, target \in live :
       /\ source # target
       /\ sum_st' = [sum_st EXCEPT ![target] = Sum_Combine(sum_st[source], @),
                                   ![source] = Sum_Initialize]
       /\ avg_st' = [avg_st EXCEPT ![target] = Avg_Combine(avg_st[source], @),
                                   ![source] = Avg_Initialize]
       /\ rows' = [rows EXCEPT
                     ![target] = [got |-> Merge(@.got, rows[source].got),
                                  merged |-> @.merged + rows[source].merged
                                               + IF rows[source].got = <<>> THEN 0 ELSE 1],
                     ![source] = NoRows]
       /\ live' = live \ {source}
  /\ UNCHANGED <<call, wide, bound, exec, fin, run>>

\* the host finalizes the one state left
Finalize ==
  /\ bound.kind = "avg" /\ ~fin.done
  /\ \E w \in live :
       /\ live = {w}
       /\ \E a \in Avg_Finalize(avg_st[w], bound) :
            fin' = [done |-> TRUE,
                    sum |-> Sum_Finalize(sum_st[w],
                              PhysicalBytes(BindSparkSumDecimal(bound.p1, bound.s1).precision)),
                    avg |-> a]
  /\ UNCHANGED <<call, wide, bound, exec, sum_st, avg_st, rows, live, run>>

InitAgg ==
  /\ call = NoCall /\ wide = NoWide /\ exec = NoExec
  /\ bound \in {BindSparkAvgDecimal(t[1], t[2]) : t \in AggTypes}
  /\ IdleStates
  /\ run = NoRun

NextAgg == UpdateNull \/ Update \/ UpdateRun \/ Combine \/ Finalize
SpecAgg == InitAgg /\ [][NextAgg]_vars

----------------------------------------------------------------------------
(* ConstantOperation on its own: one state, any value, any idx_t count.     *)

Runner == CHOOSE w \in Workers : TRUE

\* values: 0, 1, -3, 2^64, and the largest decimal of either sign
RunValues ==
  {Int128ToHugeint(v) :
     v \in {Zeros(W128), One128, Neg128(FromInt(3, W128)), Shl64(One128),
            MaxDecimal, Neg128(MaxDecimal)}}

\* counts: 0..3, 2^63 - 1, 2^63 and 2^64 - 1
RunCounts ==
  {FromInt(n, W64) : n \in 0..3}
    \cup {[i \in 1..W64 |-> IF i = W64 THEN Byte \div 2 - 1 ELSE Byte - 1],
          [i \in 1..W64 |-> IF i = W64 THEN Byte \div 2 ELSE 0],
          [i \in 1..W64 |-> Byte - 1]}

\* a row received before the run
PriorUpdate ==
  /\ run.phase = "fresh"
  /\ \E y \in {Int128ToHugeint(One128), Int128ToHugeint(MaxDecimal)} :
       /\ sum_st' = [sum_st EXCEPT ![Runner] = Sum_Operation(@, y)]
       /\ avg_st' = [avg_st EXCEPT ![Runner] = Avg_Operation(@, y)]
  /\ run' = [run EXCEPT !.phase = "updated"]
  /\ UNCHANGED <<call, wide, bound, exec, rows, live, fin>>

\* ConstantOperation(state, x, count) on the Sum and the Avg state
ConstantRun ==
  /\ run.phase \in {"fresh", "updated"}
  /\ sum_st' = [sum_st EXCEPT ![Runner] = Sum_ConstantOperation(@, run.x, run.count)]
  /\ avg_st' = [avg_st EXCEPT ![Runner] = Avg_ConstantOperation(@, run.x, run.count)]
  /\ run' = [run EXCEPT !.phase = "applied",
                        !.sum_before = sum_st[Runner], !.avg_before = avg_st[Runner]]
  /\ UNCHANGED <<call, wide, bound, exec, rows, live, fin>>

InitRun ==
  /\ call = NoCall /\ wide = NoWide /\ bound = Unbound /\ exec = NoExec /\ IdleStates
  /\ run \in {[NoRun EXCEPT !.phase = "fresh", !.x = x, !.count = n] :
               x \in RunValues, n \in RunCounts}

NextRun == PriorUpdate \/ ConstantRun
SpecRun == InitRun /\ [][NextRun]_vars

----------------------------------------------------------------------------
(* spark_decimal_div over one chunk of rows, executed by the SparkDivExec   *)
(* of thdck_spark_funcs_extension.cpp and by the SparkDivExec of            *)
(* spark_decimal_div_extension.cpp under the same bind data.                *)

MaxChunk == 2

\* the operand types explored: three of width 38 with the scale adjustments
\* 6, 0 and 44, and a narrow pair with an int32_t result, DECIMAL(9, 6)
ExecTypes ==
  {<<SPARK_MAX_PRECISION, 0, SPARK_MAX_PRECISION, 0>>,
   <<SPARK_MAX_PRECISION, SPARK_MAX_PRECISION, SPARK_MAX_PRECISION, 0>>,
   <<SPARK_MAX_PRECISION, 0, SPARK_MAX_PRECISION, SPARK_MAX_PRECISION>>,
   <<4, 2, 3, 1>>}

\* one entry of an argument vector: its validity bit and its hugeint_t
NullCell == [valid |-> FALSE, value |-> HugeintZero]
Cell(v) == [valid |-> TRUE, value |-> Int128ToHugeint(v)]

\* the rows explored: a NULL operand on either side, a zero divisor, the tie
\* -5 / 2, the largest dividend over 1 and over the largest divisor, and
\* 10^32 and 9999 over 1
ExecRows ==
  {[a |-> NullCell, b |-> Cell(One128)],
   [a |-> Cell(FromInt(5, W128)), b |-> NullCell],
   [a |-> Cell(FromInt(5, W128)), b |-> Cell(Zeros(W128))],
   [a |-> Cell(Neg128(FromInt(5, W128))), b |-> Cell(FromInt(2, W128))],
   [a |-> Cell(MaxDecimal), b |-> Cell(One128)],
   [a |-> Cell(MaxDecimal), b |-> Cell(Neg128(MaxDecimal))],
   [a |-> Cell(Pow10_128(32)), b |-> Cell(One128)],
   [a |-> Cell(Sub128(Pow10_128(4), One128)), b |-> Cell(One128)]}

\* the cell holds a value of a DECIMAL of width p: NULL, or |value| < 10^p
WithinPrecision(cell, p) ==
  ~cell.valid \/ NatLess(Abs128(HugeintToInt128(cell.value)), Pow10_128(p))

\* the chunks of up to MaxChunk rows of operands of the types t
Chunks(t) ==
  UNION {[1..n -> {r \in ExecRows : WithinPrecision(r.a, t[1]) /\ WithinPrecision(r.b, t[3])}] :
         n \in 1..MaxChunk}

\* WriteResult: static_cast<T>(val) keeps the low bytes of val
WriteResult(val, width) == Wrap(val, width)

\* the test that never finds a zero divisor
DivisorNeverZero(b_val) == FALSE

\* b_val == 0
DivisorIsZero(b_val) == IsZero(b_val)

\* one iteration of the loop of SparkDivExec, on the result so far.  With
\* `checked` the build has assertions and stops at a failed D_ASSERT.
SparkDivRow(res, row, pow10_val, width, checked) ==
  IF res.outcome = "assert_failed" THEN res
  ELSE IF ~row.a.valid \/ ~row.b.valid
  THEN [res EXCEPT !.valid = Append(@, FALSE), !.data = Append(@, <<>>)]
  ELSE IF DivisorIsZero(HugeintToInt128(row.b.value))
  THEN [res EXCEPT !.valid = Append(@, FALSE), !.data = Append(@, <<>>)]
  ELSE LET a_val == HugeintToInt128(row.a.value)
           b_val == HugeintToInt128(row.b.value)
           Written(d) ==
             IF checked /\ ~d.asserted
             THEN [res EXCEPT !.outcome = "assert_failed",
                              !.div_calls = Append(@, DivCall(a_val, b_val, pow10_val, d))]
             ELSE [res EXCEPT !.valid = Append(@, TRUE),
                              !.data = Append(@, WriteResult(d.result, width)),
                              !.div_calls = Append(@, DivCall(a_val, b_val, pow10_val, d))]
       IN Written(SparkDecimalDivide(a_val, b_val, pow10_val))

RECURSIVE SparkDivLoop(_, _, _, _, _, _)
\* for (idx_t i = 0; i < count; i++), from row i on
SparkDivLoop(res, args, i, pow10_val, width, checked) ==
  IF i > Len(args) THEN res
  ELSE SparkDivLoop(SparkDivRow(res, args[i], pow10_val, width, checked),
                    args, i + 1, pow10_val, width, checked)

\* the result vector once the loop is left
Finished(res) == [res EXCEPT !.outcome = IF @ = "assert_failed" THEN @ ELSE "returned"]

\* SparkDivExec of thdck_spark_funcs_extension.cpp: pow10_val is
\* (scale_adj > 0) ? Pow10_128(scale_adj) : 0, and pw is what that yields
SparkDivExec(args, bind_data, pw, checked) ==
  IF checked /\ ~pw.asserted
  THEN [NoResult EXCEPT !.outcome = "assert_failed",
                        !.pow_calls = PowCalls(bind_data.scale_adj)]
  ELSE Finished(SparkDivLoop([NoResult EXCEPT !.outcome = "running",
                                              !.pow_calls = PowCalls(bind_data.scale_adj)],
                             args, 1, pw.value, PhysicalBytes(bind_data.precision), checked))

\* SparkDivExec of spark_decimal_div_extension.cpp: the third argument of
\* SparkDecimalDivide is scale_adj, converted to unsigned __int128
SparkDivExecStandalone(args, bind_data, checked) ==
  Finished(SparkDivLoop([NoResult EXCEPT !.outcome = "running"], args, 1,
                        Wrap(bind_data.scale_adj, W128),
                        PhysicalBytes(bind_data.precision), checked))

ExecThdck ==
  /\ bound.kind = "div" /\ exec.thdck.outcome = "none"
  /\ \E checked \in BOOLEAN, pw \in Pow10Argument(bound.scale_adj) :
       exec' = [exec EXCEPT !.thdck = SparkDivExec(exec.args, bound, pw, checked)]
  /\ UNCHANGED <<call, wide, bound, aggVars>>

ExecStandalone ==
  /\ bound.kind = "div" /\ exec.standalone.outcome = "none"
  /\ \E checked \in BOOLEAN :
       exec' = [exec EXCEPT !.standalone = SparkDivExecStandalone(exec.args, bound, checked)]
  /\ UNCHANGED <<call, wide, bound, aggVars>>

InitExec ==
  /\ call = NoCall /\ wide = NoWide
  /\ \E t \in ExecTypes :
       /\ bound = BindSparkDecimalDiv(t[1], t[2], t[3], t[4])
       /\ exec \in {[NoExec EXCEPT !.args = c] : c \in Chunks(t)}
  /\ IdleStates
  /\ run = NoRun

NextExec == ExecThdck \/ ExecStandalone
SpecExec == InitExec /\ [][NextExec]_vars

\* every caller of SparkDecimalDivide: the scalar division of either
\* extension over a chunk, and the aggregation group with its Finalize
InitCalls == InitExec \/ InitAgg
NextCalls == ExecThdck \/ ExecStandalone \/ UpdateNull \/ Update \/ UpdateRun \/ Combine \/ Finalize
SpecCalls == InitCalls /\ [][NextCalls]_vars

----------------------------------------------------------------------------
(* Mul128 and Div256By128 on their own, over all of their 128-bit domain.   *)

AllOnes(n) == [i \in 1..n |-> Byte - 1]

\* 128-bit values at the limb boundaries: 0, 1, 2^64 - 1, 2^64, 2^64 + 1,
\* 10^19, 10^38 - 1, 2^127, 2^128 - 2^64 and 2^128 - 1
WideValues ==
  {Zeros(W128), One128, AllOnes(W64) \o Zeros(W64), Shl64(One128),
   FromInt(1, W64) \o FromInt(1, W64), Pow10_128(19), MaxDecimal,
   SetBit(Zeros(W128), Bits128 - 1), Zeros(W64) \o AllOnes(W64), AllOnes(W128)}

\* denominators: 1, 3, 2^64, 10^38 - 1, 2^127 and 2^128 - 1
WideDenominators ==
  {One128, FromInt(3, W128), Shl64(One128), MaxDecimal,
   SetBit(Zeros(W128), Bits128 - 1), AllOnes(W128)}

\* high halves of a numerator: 0, 1, 2, 2^64, 10^38 - 2, 2^127 and 2^128 - 2
WideHighs ==
  {Zeros(W128), One128, FromInt(2, W128), Shl64(One128), Sub128(MaxDecimal, One128),
   SetBit(Zeros(W128), Bits128 - 1), Sub128(AllOnes(W128), One128)}

\* low halves of a numerator: 0, 1, 2^64, 10^38 - 1 and 2^128 - 1
WideLows == {Zeros(W128), One128, Shl64(One128), MaxDecimal, AllOnes(W128)}

\* Mul128(a, b)
Multiply ==
  /\ wide.op = "mul" /\ ~wide.done
  /\ wide' = [wide EXCEPT !.done = TRUE, !.product = Mul128(wide.a, wide.b)]
  /\ UNCHANGED <<call, bound, exec, aggVars>>

\* Div256By128(num, den, &remainder), in a build without assertions
DivideWide ==
  /\ wide.op = "div" /\ ~wide.done
  /\ LET Returns(qr) == wide' = [wide EXCEPT !.done = TRUE, !.quot = qr.quot, !.rem = qr.rem]
     IN Returns(Div256By128(wide.num, wide.den))
  /\ UNCHANGED <<call, bound, exec, aggVars>>

InitWide ==
  /\ call = NoCall /\ bound = Unbound /\ exec = NoExec /\ IdleStates /\ run = NoRun
  /\ wide \in {[NoWide EXCEPT !.op = "mul", !.a = a, !.b = b] :
                 a \in WideValues, b \in WideValues}
          \cup {[NoWide EXCEPT !.op = "div", !.num = [hi |-> h, lo |-> l], !.den = d] :
                 h \in WideHighs, l \in WideLows, d \in WideDenominators}

NextWide == Multiply \/ DivideWide
SpecWide == InitWide /\ [][NextWide]_vars

----------------------------------------------------------------------------
(* What a division is meant to return, in exact arithmetic.                 *)

RECURSIVE TenTo(_)
\* 10^e as an exact integer
TenTo(e) ==
  IF e = 0 THEN FromInt(1, W128 + 1)
  ELSE LET h == TenTo(e \div 2)
           sq == Wrap(NatMul(h, h), W128 + 1)
       IN IF e % 2 = 0 THEN sq ELSE Wrap(NatMul(sq, FromInt(10, 1)), W128 + 1)

\* the magnitude of the signed 128-bit value x
Magnitude(x) ==
  IF x[W128] >= 128 THEN NatSub(Zeros(W128) \o <<1>>, x \o <<0>>) ELSE x \o <<0>>

\* m = floor(n / b) + inc, inc = 1 iff 2 * (n mod b) >= b:
\* 2mb <= 2n + b < 2mb + 2b
IsRoundedQuotient(m, n, b) ==
  LET twice_mb == NatMul(NatMul(m, b), FromInt(2, 1))
      target == NatAdd(NatMul(n, FromInt(2, 1)), b)
  IN NatLeq(twice_mb, target) /\ NatLess(target, NatAdd(twice_mb, NatMul(b, FromInt(2, 1))))

\* the signed value r is sign * m with m the rounded quotient of
\* |a| * 10^e by |b|, sign = -1 iff exactly one of a, b is negative
IsSparkQuotient(r, a, b, e) ==
  LET m == Magnitude(r)
      n == NatMul(Magnitude(a), TenTo(e))
  IN /\ IsRoundedQuotient(m, n, Magnitude(b))
     /\ (IsZero(m) \/ ((r[W128] >= 128) = ((a[W128] >= 128) # (b[W128] >= 128))))

Returned == call.outcome = "returned"

\* C1: for |a| < 10^38, 0 < |b| < 10^38 and e in 0..38 the call returns
\* sign * (floor(|a| * 10^e / |b|) + inc).
C1_ReturnsRoundedQuotient ==
  call.outcome # "none" =>
    Returned /\ IsSparkQuotient(call.result, call.a, call.b, call.e)

\* the counterpart on the calls whose rounded quotient a signed 128-bit
\* integer can hold: every D_ASSERT held and quotient + 1 is below 2^127
Representable ==
  /\ call.path = "slow" => Div256Precondition(Mul128(Abs128(call.a), call.pow10_val), Abs128(call.b))
  /\ NatLess(Add128(call.quot, One128), [i \in 1..W128 |-> IF i = W128 THEN 128 ELSE 0])
  /\ call.quot[W128] < 128

DivideCorrectWhenRepresentable ==
  (Returned /\ Representable) => IsSparkQuotient(call.result, call.a, call.b, call.e)

\* C1 on the input of a 38-digit dividend divided by 1 with six more digits
FailingDivision ==
  /\ Returned
  /\ NatEq(Magnitude(call.a), MaxDecimal) /\ NatEq(Magnitude(call.b), One128) /\ call.e = 6

\* C2: rounding is symmetric about zero, Divide(-a, b, e) = Divide(a, -b, e)
\* = -Divide(a, b, e), and an exact tie rounds away from zero, never to even:
\* Divide(5, 2, 0) = 3, Divide(-5, 2, 0) = -3, Divide(100, 3, 0) = 33.
IsTie == NatEq(Add128(call.rem, call.rem), Abs128(call.b))

Is(x, v) == x = FromInt(v, W128)
IsMinus(x, v) == x = Neg128(FromInt(v, W128))

C2_SymmetricHalfUp ==
  Returned =>
    /\ SparkDecimalDivide(Neg128(call.a), call.b, call.pow10_val).result = Neg128(call.result)
    /\ SparkDecimalDivide(call.a, Neg128(call.b), call.pow10_val).result = Neg128(call.result)
    /\ IsTie => NatEq(Magnitude(call.result), NatAdd(call.quot, One128))
    /\ (Is(call.a, 5) /\ Is(call.b, 2) /\ call.e = 0) => Is(call.result, 3)
    /\ (IsMinus(call.a, 5) /\ Is(call.b, 2) /\ call.e = 0) => IsMinus(call.result, 3)
    /\ (Is(call.a, 100) /\ Is(call.b, 3) /\ call.e = 0) => Is(call.result, 33)

\* a tie on an even quotient with a negative dividend: -5 / 2 = -3
C2_Witness ==
  /\ Returned /\ IsTie
  /\ IsMinus(call.a, 5) /\ Is(call.b, 2) /\ call.e = 0 /\ IsMinus(call.result, 3)

\* C3: whenever |a| * pow10_val fits in 128 bits, Mul128 followed by
\* Div256By128 gives the quotient and remainder of the fast path.
C3_FastSlowAgree ==
  (Returned /\ call.path = "fast") =>
    LET slow == SlowPath(Abs128(call.a), call.pow10_val, Abs128(call.b))
    IN slow.quot = call.quot /\ slow.rem = call.rem

\* a fast-path call with a scaled dividend above 2^64 and a remainder
C3_Witness ==
  /\ Returned /\ call.path = "fast"
  /\ ~IsZero(Hi64(MulOverflow(Abs128(call.a), call.pow10_val).scaled))
  /\ ~IsZero(call.rem) /\ ~IsZero(call.quot)

----------------------------------------------------------------------------
(* The precision rules.                                                     *)

\* the division rule in unbounded integer arithmetic
DivisionScale(p1, s1, p2, s2) == Max(6, s1 + p2 + 1)
DivisionPrecision(p1, s1, p2, s2) == (p1 - s1) + s2 + DivisionScale(p1, s1, p2, s2)
DivisionRule(p1, s1, p2, s2) ==
  LET scale == DivisionScale(p1, s1, p2, s2)
      precision == DivisionPrecision(p1, s1, p2, s2)
      int_digits == precision - scale
  IN IF precision > 38
     THEN [precision |-> 38,
           scale |-> IF 38 > int_digits THEN Max(38 - int_digits, Min(scale, 6))
                     ELSE Min(scale, 6)]
     ELSE [precision |-> precision, scale |-> scale]

\* C4: for valid operand types, ComputeDivisionType, ComputeSumType and
\* ComputeAvgType return precision <= 38 and scale <= precision.
C4_ResultTypeValid ==
  bound.kind # "none" => bound.precision <= 38 /\ bound.scale <= bound.precision

\* a division whose unadjusted precision exceeds 38 and was clamped
C4_Witness ==
  /\ bound.kind = "div"
  /\ DivisionPrecision(bound.p1, bound.s1, bound.p2, bound.s2) > 38
  /\ bound.precision = 38 /\ bound.scale <= 38

\* C5: ComputeDivisionType returns the rule computed in integer arithmetic;
\* no 8-bit intermediate wraps or truncates.
C5_DivisionTypeExact ==
  bound.kind = "div" =>
    [precision |-> bound.precision, scale |-> bound.scale]
      = DivisionRule(bound.p1, bound.s1, bound.p2, bound.s2)

\* the largest intermediate, (p1 - s1) + s2 + scale = 38 + 38 + 39 = 115,
\* with more integer digits than 38
C5_Witness ==
  /\ bound.kind = "div"
  /\ DivisionPrecision(bound.p1, bound.s1, bound.p2, bound.s2) = 115
  /\ bound.precision = 38 /\ bound.scale = 6

\* C6: for valid operand types the scale adjustment result_scale - s1 + s2
\* is >= 0, and the uint32_t stored at bind time is that number.
C6_ScaleAdjNonNegative ==
  bound.kind = "div" =>
    /\ bound.scale - bound.s1 + bound.s2 >= 0
    /\ bound.scale_adj = U32(bound.scale - bound.s1 + bound.s2)

\* an adjusted scale below the dividend's scale, made up for by s2
C6_Witness ==
  /\ bound.kind = "div"
  /\ bound.scale < bound.s1
  /\ bound.scale_adj = U32(bound.scale - bound.s1 + bound.s2)

----------------------------------------------------------------------------
(* The accumulators.                                                        *)

RECURSIVE SumFold(_, _, _)
\* one Sum state folded over the first k rows of got: Initialize, then
\* Operation for every row that is not NULL
SumFold(values, got, k) ==
  IF k = 0 THEN Sum_Initialize
  ELSE LET state == SumFold(values, got, k - 1)
       IN IF got[k] = 0 THEN state ELSE Sum_Operation(state, values[got[k]])

RECURSIVE AvgFold(_, _, _)
AvgFold(values, got, k) ==
  IF k = 0 THEN Avg_Initialize
  ELSE LET state == AvgFold(values, got, k - 1)
       IN IF got[k] = 0 THEN state ELSE Avg_Operation(state, values[got[k]])

\* C7: however the rows were spread over the workers and in whatever order
\* and tree shape the states were combined, a state equals the single state
\* folded sequentially over the rows it has received; so does the final one.
C7_CombineIsFold ==
  \A w \in live :
    /\ sum_st[w] = SumFold(RowValues(bound.p1), rows[w].got, Len(rows[w].got))
    /\ avg_st[w] = AvgFold(RowValues(bound.p1), rows[w].got, Len(rows[w].got))

\* the final state of three workers that received 10^38 - 1 each: two
\* non-empty states were combined in, and the total passed 2^127
C7_Witness ==
  \E w \in Workers :
    /\ live = {w}
    /\ rows[w] = [got |-> <<2, 2, 2>>, merged |-> 2]
    /\ bound.p1 = SPARK_MAX_PRECISION
    /\ IsNegative128(HugeintToInt128(sum_st[w].value))
    /\ avg_st[w].count = FromInt(3, W64)

\* the state after n sequential Operation(x) calls.  Each call adds x, so the
\* 2^i calls that bit i of n stands for add x doubled i times
RunStep(acc, n, i) ==
  [total |-> IF BitOf(n, i) = 1 THEN HugeintAdd(acc.total, acc.unit) ELSE acc.total,
   unit |-> HugeintAdd(acc.unit, acc.unit)]

RECURSIVE RunBits(_, _, _, _)
RunBits(acc, n, lo, hi) ==
  IF lo = hi THEN RunStep(acc, n, lo)
  ELSE LET mid == (lo + hi) \div 2
       IN CHOOSE r \in {RunBits(s, n, mid + 1, hi) : s \in {RunBits(acc, n, lo, mid)}} : TRUE

AddedTimes(v, x, n) == RunBits([total |-> v, unit |-> x], n, 0, Bits64 - 1).total

SumAfterUpdates(state, x, n) ==
  IF IsZero(n) THEN state
  ELSE [isset |-> TRUE, value |-> AddedTimes(state.value, x, n)]

AvgAfterUpdates(state, x, n) ==
  [count |-> Wrap(NatAdd(state.count, n), W64), sum |-> AddedTimes(state.sum, x, n)]

RECURSIVE SumUpdates(_, _, _)
\* k Operation(x) calls one after the other, k a small number
SumUpdates(state, x, k) ==
  IF k = 0 THEN state ELSE SumUpdates(Sum_Operation(state, x), x, k - 1)

RECURSIVE AvgUpdates(_, _, _)
AvgUpdates(state, x, k) ==
  IF k = 0 THEN state ELSE AvgUpdates(Avg_Operation(state, x), x, k - 1)

\* for the small counts the doubling is the calls made one by one
AfterUpdatesIsUpdates ==
  (run.phase = "applied" /\ IsZero(SubSeq(run.count, 2, W64))) =>
     /\ SumAfterUpdates(run.sum_before, run.x, run.count)
          = SumUpdates(run.sum_before, run.x, run.count[1])
     /\ AvgAfterUpdates(run.avg_before, run.x, run.count)
          = AvgUpdates(run.avg_before, run.x, run.count[1])

\* C8: Sum ConstantOperation(x, n) leaves the state (value and isset) that n
\* sequential Operation(x) calls leave, for every x and every n >= 0.
C8_SumRunIsUpdates ==
  run.phase = "applied" =>
    sum_st[Runner] = SumAfterUpdates(run.sum_before, run.x, run.count)

\* the same for the counts from 1 to 2^63 - 1
SumRunIsUpdatesInRange ==
  (run.phase = "applied" /\ ~IsZero(run.count) /\ run.count[W64] < Byte \div 2) =>
    sum_st[Runner] = SumAfterUpdates(run.sum_before, run.x, run.count)

\* C9: Avg ConstantOperation(x, n) leaves the state (sum and count) that n
\* sequential Operation(x) calls leave, for every x and every n below 2^64.
C9_AvgRunIsUpdates ==
  run.phase = "applied" =>
    avg_st[Runner] = AvgAfterUpdates(run.avg_before, run.x, run.count)

\* the same for the counts below 2^63
AvgRunIsUpdatesInRange ==
  (run.phase = "applied" /\ run.count[W64] < Byte \div 2) =>
    avg_st[Runner] = AvgAfterUpdates(run.avg_before, run.x, run.count)

\* some state has received a row that is not NULL
SomeRow == \E w \in Workers : \E i \in DOMAIN rows[w].got : rows[w].got[i] # 0

\* C10: Finalize returns NULL, for Sum and for Avg, exactly when the group
\* received no non-null row, directly or through the states combined.
C10_NullPropagation ==
  fin.done => /\ fin.sum.is_null <=> ~SomeRow
              /\ fin.avg.is_null <=> ~SomeRow

\* two states that saw only NULL rows were combined into the final one,
\* and Finalize returned NULL for both aggregates
C10_Witness ==
  /\ fin.done /\ fin.sum.is_null /\ fin.avg.is_null
  /\ \E w \in Workers : live = {w} /\ rows[w].merged = 2

\* a final state that received rows only through Combine finalizes to values
C10_ValueWitness ==
  /\ fin.done /\ ~fin.sum.is_null /\ ~fin.avg.is_null
  /\ \E w \in Workers : live = {w} /\ rows[w].merged = 2 /\ Len(rows[w].got) = 2

----------------------------------------------------------------------------
(* What Finalize is meant to return, in exact arithmetic.                   *)

RECURSIVE MagnitudeSum(_, _, _, _)
\* the exact sum of the magnitudes of the non-null rows among the first k of
\* got whose sign is `neg`
MagnitudeSum(values, got, k, neg) ==
  IF k = 0 THEN Zeros(W128 + 1)
  ELSE IF got[k] # 0 /\ IsNegative128(HugeintToInt128(values[got[k]])) = neg
  THEN Wrap(NatAdd(MagnitudeSum(values, got, k - 1, neg),
                   Magnitude(HugeintToInt128(values[got[k]]))), W128 + 1)
  ELSE MagnitudeSum(values, got, k - 1, neg)

\* x_1 + ... + x_n over the non-null rows of got, as sign and magnitude
ExactTotal(values, got) ==
  LET Signed2(pos, neg) ==
        IF NatLess(pos, neg) THEN [neg |-> TRUE, mag |-> NatSub(neg, pos)]
        ELSE [neg |-> FALSE, mag |-> NatSub(pos, neg)]
  IN Signed2(MagnitudeSum(values, got, Len(got), FALSE),
             MagnitudeSum(values, got, Len(got), TRUE))

\* the number of non-null rows of got
NonNull(got) == Len(SelectSeq(got, LAMBDA k : k # 0))

\* sign and magnitude of the two's complement value written to a target
TargetValue(target) ==
  IF target[Len(target)] >= Byte \div 2
  THEN [neg |-> TRUE, mag |-> NatSub(Zeros(Len(target)), target)]
  ELSE [neg |-> FALSE, mag |-> target]

\* the target holds round_half_up(total * 10^e / n), away from zero
IsRoundedMean(target, total, e, n) ==
  /\ IsRoundedQuotient(TargetValue(target).mag, NatMul(total.mag, TenTo(e)), FromInt(n, W64))
  /\ IsZero(TargetValue(target).mag) \/ TargetValue(target).neg = total.neg

\* the rows the finalized state has received
FinalRows == rows[CHOOSE w \in Workers : live = {w}].got

\* C11: after any Update/UpdateRun/Combine sequence that contributed n >= 1
\* values x_1..x_n, Avg Finalize returns round_half_up((x_1 + ... + x_n) *
\* 10^(result_scale - s) / n); a group of one value v finalizes to
\* v * 10^(result_scale - s).
C11_AvgFinalizeIsRoundedMean ==
  (fin.done /\ SomeRow) =>
    /\ fin.avg.outcome = "returned" /\ ~fin.avg.is_null
    /\ IsRoundedMean(fin.avg.target, ExactTotal(RowValues(bound.p1), FinalRows),
                     bound.scale - bound.s1, NonNull(FinalRows))
    /\ NonNull(FinalRows) = 1 =>
         NatEq(TargetValue(fin.avg.target).mag,
               NatMul(ExactTotal(RowValues(bound.p1), FinalRows).mag,
                      TenTo(bound.scale - bound.s1)))

\* the same for the DECIMAL(5, 2) argument, whose totals stay far below 2^127
AvgFinalizeIsRoundedMeanNarrow ==
  (bound.p1 < SPARK_MAX_PRECISION /\ bound.s1 <= bound.scale) => C11_AvgFinalizeIsRoundedMean

\* the narrow group of three rows whose mean is not a whole number
AvgFinalizeNarrowReached ==
  /\ fin.done /\ bound.p1 < SPARK_MAX_PRECISION /\ bound.s1 <= bound.scale
  /\ NonNull(FinalRows) = 3
  /\ FinalRows = <<1, 2, 2>> /\ fin.avg.outcome = "returned"

\* C11 on one row 10^38 - 1 of a DECIMAL(38, 0) argument
FailingAverage ==
  /\ fin.done /\ bound.p1 = SPARK_MAX_PRECISION /\ FinalRows = <<2>>

\* the target holds exactly the signed number total
IsTotal(target, total) ==
  /\ NatEq(TargetValue(target).mag, total.mag)
  /\ IsZero(total.mag) \/ TargetValue(target).neg = total.neg

\* C12: Sum Finalize narrowing is lossless: over values with |x| < 10^p the
\* accumulated total satisfies |total| < 10^min(p + 10, 38), and the target of
\* the physical width selected from ComputeSumType(p, s) holds exactly total.
C12_SumNarrowingLossless ==
  (fin.done /\ SomeRow) =>
    /\ ~fin.sum.is_null
    /\ NatLess(ExactTotal(RowValues(bound.p1), FinalRows).mag,
               TenTo(Min(bound.p1 + 10, SPARK_MAX_PRECISION)))
    /\ IsTotal(fin.sum.target, ExactTotal(RowValues(bound.p1), FinalRows))

\* the same for the arguments narrower than 38 digits, whose totals stay
\* below their result type
SumNarrowingLosslessNarrow ==
  bound.p1 < SPARK_MAX_PRECISION => C12_SumNarrowingLossless

\* a narrow group whose total 2 * 99999 - 3 went into an int64_t target
SumNarrowReached ==
  /\ fin.done /\ bound.p1 = 5 /\ FinalRows = <<1, 2, 2>>
  /\ Len(fin.sum.target) = W64

\* C12 on two rows 10^38 - 1 of a DECIMAL(38, 0) argument
FailingSum ==
  /\ fin.done /\ bound.p1 = SPARK_MAX_PRECISION /\ FinalRows = <<2, 2>>

----------------------------------------------------------------------------
(* The callers of SparkDecimalDivide.                                       *)

\* a row with a NULL operand or a zero divisor
NoValue(row) ==
  ~row.a.valid \/ ~row.b.valid \/ IsZero(HugeintToInt128(row.b.value))

\* the rows of a chunk that have a quotient, in order
Dividable(args) == SelectSeq([i \in 1..Len(args) |-> args[i]] \o <<>>, LAMBDA row : ~NoValue(row))

\* the calls a SparkDivExec made are those of the first rows that have a
\* quotient, one each, and once it has returned every row without a value is
\* invalid and every other row is valid
SkipsNoValueRows(res, args) ==
  /\ Len(res.div_calls) <= Len(Dividable(args))
  /\ \A k \in DOMAIN res.div_calls :
       /\ res.div_calls[k].a = HugeintToInt128(Dividable(args)[k].a.value)
       /\ res.div_calls[k].b = HugeintToInt128(Dividable(args)[k].b.value)
       /\ ~IsZero(res.div_calls[k].b)
  /\ res.outcome = "returned" =>
       /\ Len(res.div_calls) = Len(Dividable(args))
       /\ Len(res.valid) = Len(args)
       /\ \A i \in DOMAIN res.valid : res.valid[i] <=> ~NoValue(args[i])

\* C13: a zero divisor never reaches SparkDecimalDivide.  Either SparkDivExec
\* marks every row with a zero divisor or a NULL operand invalid without a
\* call, Avg Finalize of a state with count = 0 returns NULL without a call,
\* and every call that is made has b # 0.
C13_ZeroDivisorNeverDivided ==
  /\ exec.thdck.outcome # "none" => SkipsNoValueRows(exec.thdck, exec.args)
  /\ exec.standalone.outcome # "none" => SkipsNoValueRows(exec.standalone, exec.args)
  /\ fin.done =>
       /\ \A k \in DOMAIN fin.avg.div_calls : ~IsZero(fin.avg.div_calls[k].b)
       /\ \A w \in live : IsZero(avg_st[w].count) =>
            fin.avg.is_null /\ fin.avg.div_calls = <<>>

\* a chunk with a zero divisor and a NULL dividend, both left invalid by
\* both executors without a call
C13_Witness ==
  /\ exec.thdck.outcome = "returned" /\ exec.standalone.outcome = "returned"
  /\ Len(exec.args) = 2
  /\ exec.args[1].b = Cell(Zeros(W128)) /\ ~exec.args[2].a.valid
  /\ exec.thdck.valid = <<FALSE, FALSE>> /\ exec.thdck.div_calls = <<>>
  /\ exec.standalone.valid = <<FALSE, FALSE>> /\ exec.standalone.div_calls = <<>>

\* a group of NULL rows only, finalized to NULL without a division
ZeroCountFinalized ==
  /\ fin.done /\ fin.avg.is_null /\ fin.avg.div_calls = <<>>
  /\ \E w \in Workers : live = {w} /\ Len(rows[w].got) = 2

\* a zero divisor next to a row that is divided
ZeroDivisorBesideQuotient ==
  /\ exec.thdck.outcome = "returned"
  /\ Len(exec.args) = 2 /\ exec.args[1].b = Cell(Zeros(W128))
  /\ exec.thdck.valid = <<FALSE, TRUE>> /\ Len(exec.thdck.div_calls) = 1

----------------------------------------------------------------------------
(* The wide-integer primitives.                                             *)

\* the sum of the two middle partial products of a * b passes 2^128
MidCarries(a, b) ==
  ~IsZero(SubSeq(NatAdd(NatMul(Lo64(a), Hi64(b)), NatMul(Hi64(a), Lo64(b))), W128 + 1, W128 + 1))

\* the addition of the low halves of a * b passes 2^128
LowCarries(a, b) ==
  NatLess(Add128(NatMul(Lo64(a), Lo64(b)),
                 Shl64(Add128(NatMul(Lo64(a), Hi64(b)), NatMul(Hi64(a), Lo64(b))))),
          NatMul(Lo64(a), Lo64(b)))

\* C14: Mul128 is exact for all unsigned 128-bit inputs: hi * 2^128 + lo =
\* a * b, also where the sum of the middle partial products or the low-half
\* addition carries.
C14_Mul128Exact ==
  (wide.op = "mul" /\ wide.done) =>
    NatEq(wide.product.lo \o wide.product.hi, NatMul(wide.a, wide.b))

\* a product in which both carries happen
C14_Witness ==
  /\ wide.op = "mul" /\ wide.done
  /\ MidCarries(wide.a, wide.b) /\ LowCarries(wide.a, wide.b)
  /\ ~IsZero(wide.product.hi)

\* num = quot * den + rem with rem < den
IsExactDivision(num, den, quot, rem) ==
  /\ NatEq(num.lo \o num.hi, NatAdd(NatMul(quot, den), rem))
  /\ NatLess(rem, den)

\* C15: Div256By128 is exact under its precondition: for every numerator and
\* every denominator in [1, 2^128) with num.hi < den, num = q * den + r and
\* 0 <= r < den, in the num.hi = 0 branch and in the bit-by-bit branch.
C15_Div256Exact ==
  (wide.op = "div" /\ wide.done /\ NatLess(wide.num.hi, wide.den)) =>
    IsExactDivision(wide.num, wide.den, wide.quot, wide.rem)

\* the same for the denominators up to 2^127, where doubling a remainder
\* below den stays within 128 bits
Div256ExactBelowTopBit ==
  (wide.op = "div" /\ wide.done /\ NatLess(wide.num.hi, wide.den)
     /\ NatLeq(wide.den, SetBit(Zeros(W128), Bits128 - 1))) =>
    IsExactDivision(wide.num, wide.den, wide.quot, wide.rem)

\* a bit-by-bit division by a decimal magnitude with a remainder
Div256BelowTopBitReached ==
  /\ wide.op = "div" /\ wide.done /\ ~IsZero(wide.num.hi)
  /\ NatLess(wide.num.hi, wide.den) /\ wide.den = MaxDecimal
  /\ ~IsZero(wide.rem) /\ ~IsZero(Hi64(wide.quot))

\* C15 on 2^255 divided by 2^128 - 1
FailingWideDivision ==
  /\ wide.op = "div" /\ wide.done
  /\ wide.num = [hi |-> SetBit(Zeros(W128), Bits128 - 1), lo |-> Zeros(W128)]
  /\ wide.den = AllOnes(W128)

----------------------------------------------------------------------------
(* The result types of the aggregates.                                      *)

\* C16: ComputeSumType(p, s) = {min(p + 10, 38), s} and ComputeAvgType(p, s)
\* = {min(p + 4, 38), min(s + 4, 18) capped to the result precision} for
\* every valid (p, s); ComputeSumType(38, 0) = {38, 0} and
\* ComputeAvgType(38, 18) = {38, 18}.
C16_AggregateTypes ==
  /\ bound.kind = "sum" =>
       /\ bound.precision = Min(bound.p1 + 10, 38) /\ bound.scale = bound.s1
       /\ (bound.p1 = 38 /\ bound.s1 = 0) => (bound.precision = 38 /\ bound.scale = 0)
  /\ bound.kind = "avg" =>
       /\ bound.precision = Min(bound.p1 + 4, 38)
       /\ bound.scale = Min(Min(bound.s1 + 4, 18), Min(bound.p1 + 4, 38))
       /\ (bound.p1 = 38 /\ bound.s1 = 18) => (bound.precision = 38 /\ bound.scale = 18)

\* the bind of spark_avg over DECIMAL(38, 18): both clamps at their limit
C16_Witness ==
  /\ bound.kind = "avg" /\ bound.p1 = 38 /\ bound.s1 = 18
  /\ bound.precision = 38 /\ bound.scale = 18

\* the bind of spark_sum over DECIMAL(38, 0)
SumTypeReached ==
  /\ bound.kind = "sum" /\ bound.p1 = 38 /\ bound.s1 = 0
  /\ bound.precision = 38 /\ bound.scale = 0

----------------------------------------------------------------------------
(* The slow path and the power of ten of every caller.                      *)

\* the calls of SparkDecimalDivide made so far by either SparkDivExec and
\* by Avg Finalize
CallsMade ==
  {exec.thdck.div_calls[k] : k \in DOMAIN exec.thdck.div_calls}
    \cup {exec.standalone.div_calls[k] : k \in DOMAIN exec.standalone.div_calls}
    \cup {fin.avg.div_calls[k] : k \in DOMAIN fin.avg.div_calls}

\* C17: whenever SparkDecimalDivide takes the slow path with |a| < 10^38 and
\* 0 < |b| < 10^38, from the scalar division with a scale adjustment of the
\* bind or from Avg Finalize with b = count, the high half of |a| * pow10_val
\* is below |b| and the D_ASSERT of Div256By128 holds.
C17_SlowPathPrecondition ==
  \A c \in CallsMade :
    c.path = "slow" =>
      /\ c.asserted
      /\ Div256Precondition(Mul128(Abs128(c.a), c.pow10_val), Abs128(c.b))

\* a slow-path call whose precondition holds: (10^38 - 1) * 10^6 over
\* -(10^38 - 1)
SlowPathWithinRange ==
  \E k \in DOMAIN exec.thdck.div_calls :
    /\ exec.thdck.div_calls[k].path = "slow" /\ exec.thdck.div_calls[k].asserted
    /\ exec.thdck.div_calls[k].pow10_val = Pow10_128(6)

\* C17 on the row (10^38 - 1) / 1 of DECIMAL(38, 0) operands
FailingSlowPath ==
  \E k \in DOMAIN exec.thdck.div_calls :
    /\ exec.thdck.div_calls[k].a = MaxDecimal /\ exec.thdck.div_calls[k].b = One128
    /\ exec.thdck.div_calls[k].pow10_val = Pow10_128(6)
    /\ exec.thdck.div_calls[k].path = "slow"

\* the exponent e is within the table of Pow10_128
WithinTable(e) == IsZero(SubSeq(e, 2, W32)) /\ e[1] <= Pow10MaxExp

\* C18: for every pair of valid operand types the scale adjustment
\* result_scale - s1 + s2 stored at bind time is <= 38, so the scalar
\* division never calls Pow10_128 with an exponent outside 0..38.
C18_ScaleAdjWithinTable ==
  bound.kind = "div" =>
    /\ bound.scale - bound.s1 + bound.s2 <= Pow10MaxExp
    /\ WithinTable(bound.scale_adj)

\* the same for divisors without a fraction: the adjustment is at most the
\* result scale
ScaleAdjWithinTableWholeDivisor ==
  (bound.kind = "div" /\ bound.s2 = 0) => WithinTable(bound.scale_adj)

\* C18 on DECIMAL(38, 0) / DECIMAL(38, 38): the adjustment is 6 - 0 + 38
FailingScaleAdj ==
  /\ bound.kind = "div" /\ bound.s1 = 0 /\ bound.s2 = SPARK_MAX_PRECISION
  /\ bound.scale = SPARK_MIN_ADJUSTED_SCALE /\ bound.scale_adj = U32(44)

\* SparkDivExec calling Pow10_128 beyond its table
PowCallBeyondTable ==
  \E k \in DOMAIN exec.thdck.pow_calls : ~WithinTable(exec.thdck.pow_calls[k])

\* C19: for every valid input type DECIMAL(p, s) the Avg scale adjustment
\* result_scale - input_scale computed in Finalize is an exponent in 0..38:
\* the unsigned subtraction does not wrap around and Pow10_128 is not called
\* out of range.
C19_AvgScaleAdjWithinTable ==
  (fin.done /\ ~fin.avg.is_null) =>
    /\ bound.scale - bound.s1 \in 0..Pow10MaxExp
    /\ \A k \in DOMAIN fin.avg.pow_calls :
         /\ WithinTable(fin.avg.pow_calls[k])
         /\ fin.avg.pow_calls[k] = U32(bound.scale - bound.s1)

\* the same for the input scales up to 18, the largest result scale
AvgScaleAdjWithinTableUpTo18 ==
  bound.s1 <= 18 => C19_AvgScaleAdjWithinTable

\* Finalize of a DECIMAL(5, 2) group called Pow10_128(4)
AvgScaleAdjReached ==
  /\ fin.done /\ ~fin.avg.is_null /\ bound.s1 = 2 /\ fin.avg.pow_calls = <<U32(4)>>

\* C19 on a DECIMAL(20, 19) argument: the result scale is 18 and the
\* adjustment 18 - 19 wraps to 2^32 - 1
FailingAvgScaleAdj ==
  /\ fin.done /\ ~fin.avg.is_null /\ bound.s1 = 19 /\ bound.scale = 18
  /\ fin.avg.pow_calls = <<AllOnes(W32)>>

\* v is the third argument the callers are to precompute for the exponent
\* scale_adj: 10^scale_adj, or 0 when scale_adj = 0
IsPowerOfTenFor(v, scale_adj) ==
  IF IsZero(scale_adj) THEN IsZero(v)
  ELSE WithinTable(scale_adj) /\ v = Pow10_128(scale_adj[1])

\* the exponent of Avg Finalize, as it was handed to Pow10_128
AvgScaleAdj == IF fin.avg.pow_calls = <<>> THEN U32(0) ELSE fin.avg.pow_calls[1]

\* both entry points have run over the chunk to the end
BothReturned == exec.thdck.outcome = "returned" /\ exec.standalone.outcome = "returned"

\* the two result vectors are the same
SameResult ==
  /\ exec.thdck.valid = exec.standalone.valid
  /\ exec.thdck.data = exec.standalone.data

\* C20: every caller of SparkDecimalDivide passes as its third argument the
\* precomputed power of ten 10^scale_adj (or 0 when scale_adj = 0), never
\* the bare exponent: SparkDivExec of both extension entry points and Avg
\* Finalize; so for the same bind data and the same rows both entry points
\* produce the same result vector.
C20_CallersPassPowerOfTen ==
  /\ \A k \in DOMAIN exec.thdck.div_calls :
       IsPowerOfTenFor(exec.thdck.div_calls[k].pow10_val, bound.scale_adj)
  /\ \A k \in DOMAIN exec.standalone.div_calls :
       IsPowerOfTenFor(exec.standalone.div_calls[k].pow10_val, bound.scale_adj)
  /\ \A k \in DOMAIN fin.avg.div_calls :
       IsPowerOfTenFor(fin.avg.div_calls[k].pow10_val, AvgScaleAdj)
  /\ BothReturned => SameResult

\* the same for the callers that look the power up, with an exponent that
\* the table of Pow10_128 holds, and for both entry points without a scale
\* adjustment
CallersPassPowerOfTenWithinTable ==
  /\ \A k \in DOMAIN exec.thdck.div_calls :
       WithinTable(bound.scale_adj) =>
         IsPowerOfTenFor(exec.thdck.div_calls[k].pow10_val, bound.scale_adj)
  /\ \A k \in DOMAIN fin.avg.div_calls :
       WithinTable(AvgScaleAdj) =>
         IsPowerOfTenFor(fin.avg.div_calls[k].pow10_val, AvgScaleAdj)
  /\ (BothReturned /\ IsZero(bound.scale_adj)) => SameResult

\* both entry points divided -5 by 2 without a scale adjustment and agree,
\* and thdck's SparkDivExec passed 10^6 for a scale adjustment of 6
PowerOfTenPassed ==
  \/ /\ BothReturned /\ IsZero(bound.scale_adj) /\ SameResult
     /\ \E k \in DOMAIN exec.thdck.div_calls : exec.thdck.div_calls[k].b = FromInt(2, W128)
  \/ /\ bound.scale_adj = U32(6) /\ exec.thdck.outcome = "returned"
     /\ \E k \in DOMAIN exec.thdck.div_calls :
          exec.thdck.div_calls[k].pow10_val = Pow10_128(6)

\* Avg Finalize of a DECIMAL(5, 2) group passed 10^4
AvgPowerOfTenPassed ==
  /\ fin.done /\ bound.s1 = 2
  /\ \E k \in DOMAIN fin.avg.div_calls : fin.avg.div_calls[k].pow10_val = Pow10_128(4)

\* C20 on DECIMAL(38, 0) operands and the row -5 / 2: the SparkDivExec of
\* spark_decimal_div_extension.cpp passed the bare exponent 6, and the two
\* entry points wrote different quotients
BareExponentPassed ==
  /\ bound.scale_adj = U32(6) /\ BothReturned /\ ~SameResult
  /\ \E k \in DOMAIN exec.standalone.div_calls :
       /\ exec.standalone.div_calls[k].pow10_val = FromInt(6, W128)
       /\ exec.standalone.div_calls[k].b = FromInt(2, W128)

\* the remainder the call rounded with is below |b|
RemainderBelowDivisor == NatLess(call.rem, Abs128(call.b))

\* remainder * 2 is below 2^128
TwiceRemainderFits == call.rem[W128] < 128

\* the rounding step added 0 or 1 to the quotient
RoundingAddsAtMostOne ==
  LET quotient == RoundHalfUp(call.quot, call.rem, Abs128(call.b))
  IN quotient = call.quot \/ quotient = Add128(call.quot, One128)

\* C21: in every SparkDecimalDivide call with b != 0, |a| < 10^38 and
\* |b| < 10^38, whichever of the three branches (no scaling, fast path, slow
\* path) is taken, the remainder used for rounding is below |b|; hence
\* 2 * remainder does not overflow 128 bits and the rounding step adds at
\* most 1 to the quotient.
C21_RemainderBelowDivisor ==
  Returned => RemainderBelowDivisor /\ TwiceRemainderFits /\ RoundingAddsAtMostOne

\* the same for the calls on which the D_ASSERT of Div256By128 holds
RemainderBelowDivisorWhenAsserted ==
  (/\ Returned
   /\ call.path = "slow" =>
        Div256Precondition(Mul128(Abs128(call.a), call.pow10_val), Abs128(call.b)))
    => RemainderBelowDivisor /\ TwiceRemainderFits /\ RoundingAddsAtMostOne

\* the branches with a remainder that is not zero
UnscaledRemainderReached ==
  Returned /\ call.path = "unscaled" /\ ~IsZero(call.rem) /\ RemainderBelowDivisor
FastRemainderReached ==
  Returned /\ call.path = "fast" /\ ~IsZero(call.rem) /\ RemainderBelowDivisor
SlowRemainderReached ==
  Returned /\ call.path = "slow" /\ ~IsZero(call.rem) /\ RemainderBelowDivisor

\* C21 on the slow path of (10^38 - 1) * 10^6 over 1: the remainder is not
\* below the divisor
FailingRemainder ==
  /\ Returned /\ call.path = "slow" /\ ~RemainderBelowDivisor
  /\ NatEq(Magnitude(call.a), MaxDecimal) /\ NatEq(Magnitude(call.b), One128) /\ call.e = 6

\* the cells SparkDivExec wrote, in the order of its calls
WrittenCells(res) ==
  LET IsWritten(d) == Len(d) > 0
  IN SelectSeq(res.data, IsWritten)

\* the signed value of a cell of the physical type, as a signed 128-bit value
Widened(v) ==
  [i \in 1..W128 |-> IF i <= Len(v) THEN v[i] ELSE IF v[Len(v)] >= 128 THEN Byte - 1 ELSE 0]

\* |r| < 10^precision
FitsPrecision(r, precision) == NatLess(Magnitude(r), TenTo(precision))

\* the k-th call returned a value of the result type and the cell written
\* from it holds that value
ResultPreserved(res, k) ==
  /\ FitsPrecision(res.div_calls[k].result, bound.precision)
  /\ FitsPrecision(res.div_calls[k].result, SPARK_MAX_PRECISION)
  /\ Len(WrittenCells(res)[k]) = PhysicalBytes(bound.precision)
  /\ Widened(WrittenCells(res)[k]) = res.div_calls[k].result

\* C22: the scalar division result always fits its declared result type: for
\* every valid operand type pair and all operand values within their declared
\* precisions, the value r returned by SparkDecimalDivide satisfies
\* |r| < 10^result_precision (hence |r| < 10^38), so the narrowing in
\* WriteResult to the physical width selected at bind time preserves the value.
C22_ResultFitsResultType ==
  (bound.kind = "div" /\ exec.thdck.outcome = "returned") =>
    \A k \in DOMAIN exec.thdck.div_calls : ResultPreserved(exec.thdck, k)

\* the same for the operand types whose result precision
\* (p1 - s1) + s2 + max(6, s1 + p2 + 1) is not cut down to 38
ResultFitsUnreducedResultType ==
  DivisionPrecision(bound.p1, bound.s1, bound.p2, bound.s2) <= SPARK_MAX_PRECISION
    => C22_ResultFitsResultType

\* 9999 / 1 and -5 / 2 of DECIMAL(4, 2) by DECIMAL(3, 1) written as the
\* int32_t cells 999900000 and -250000 of DECIMAL(9, 6)
NarrowResultReached ==
  /\ bound.kind = "div" /\ bound.precision = 9 /\ exec.thdck.outcome = "returned"
  /\ Len(exec.thdck.div_calls) = 2
  /\ exec.thdck.div_calls[1].a = Sub128(Pow10_128(4), One128)
  /\ ResultPreserved(exec.thdck, 1) /\ ~IsNegative128(exec.thdck.div_calls[1].result)
  /\ ResultPreserved(exec.thdck, 2) /\ IsNegative128(exec.thdck.div_calls[2].result)

\* C22 on DECIMAL(38, 0) operands and the row 10^32 / 1: the result type is
\* DECIMAL(38, 6) and the value written is 10^38
FailingResultType ==
  /\ bound.kind = "div" /\ bound.precision = SPARK_MAX_PRECISION
  /\ bound.scale = SPARK_MIN_ADJUSTED_SCALE /\ exec.thdck.outcome = "returned"
  /\ \E k \in DOMAIN exec.thdck.div_calls :
       /\ exec.thdck.div_calls[k].a = Pow10_128(32) /\ exec.thdck.div_calls[k].b = One128
       /\ exec.thdck.div_calls[k].pow10_val = Pow10_128(6)
       /\ exec.thdck.div_calls[k].result = Pow10_128(Pow10MaxExp)
       /\ Widened(WrittenCells(exec.thdck)[k]) = Pow10_128(Pow10MaxExp)

====
